---- MODULE Spec2Model ----
(***************************************************************************)
(* Reconciliation of security findings against tracking issues:            *)
(* close_fixed_issues.py (closer), reopen_fixed.py (reopener) and          *)
(* create_security_issues.py (creator) run against one issue tracker and   *)
(* one finding snapshot.                                                   *)
(*                                                                         *)
(* Text.  A line of text is the sequence of its pieces between '|'         *)
(* characters (what line.split('|') returns), so a line without '|' has    *)
(* one piece.  A piece is [l, w, t]: l leading blanks, the word w (no      *)
(* blank at either end, possibly empty), t trailing blanks.  A CSV field   *)
(* is a piece as well.  An identity f"{package}|{severity}" is the pair    *)
(* <<package, severity>>.                                                  *)
(***************************************************************************)
EXTENDS Integers, Sequences, FiniteSets, TLC

VARIABLES
    snapshot,   \* the finding snapshot file: [exists, conv, rows]
    issues,     \* the tracker: sequence of issues, the index is the number
    repoLabels, \* labels defined in each repository
    run,        \* the running script, its arguments, statistics and record
    todo,       \* repositories the running script has still to process
    prev,       \* record of the previous finished run
    runs,       \* number of runs started
    mode,       \* what is run: "single", "again", "rounds" or "load"
    out         \* log of the finished runs of the rounds; results of the loaders

vars == <<snapshot, issues, repoLabels, run, todo, prev, runs, mode, out>>

-----------------------------------------------------------------------------
(* Bounds *)

MaxRuns == 2

MaxRounds == 2

MaxIssues == 2

MaxFails == 1

\* the largest count of one severity given to format_issue_title
MaxCount == 3

\* the largest number of options of a Status field
MaxOptions == 3

\* the largest number of findings given to format_issue_body
MaxFindings == 2

\* the largest number of lines of an issue body given to the readers
MaxLines == 4

\* the largest number of project items an issue is linked to
MaxItems == 3

-----------------------------------------------------------------------------
(* Text *)

P(l, w, t) == [l |-> l, w |-> w, t |-> t]

Cell(w) == P(1, w, 1)

Edge == P(0, "", 0)

\* "| a | b |" : an empty piece before the first and after the last '|'.
TableLine(ws) == <<Edge>> \o [i \in 1..Len(ws) |-> Cell(ws[i])] \o <<Edge>>

\* "|---|---|" : the dashes touch the bars.
SepLine(n) == <<Edge>> \o [i \in 1..n |-> P(0, "---", 0)] \o <<Edge>>

TextLine(w) == <<P(0, w, 0)>>

BlankLine == <<Edge>>

\* str.strip() of a piece
strip(p) == p.w

\* str.lower() on the words of the model
lower(w) ==
    CASE w = "Package" -> "package"
      [] w = "Component" -> "component"
      [] w = "Severity" -> "severity"
      [] w = "HIGH" -> "high"
      [] w = "High" -> "high"
      [] w = "LOW" -> "low"
      [] w = "CRITICAL" -> "critical"
      [] w = "MODERATE" -> "moderate"
      [] w = "Open" -> "open"
      [] w = "OPEN" -> "open"
      [] w = "Fixed" -> "fixed"
      [] w = "PkgX" -> "pkgx"
      [] w = "pkgX" -> "pkgx"
      [] w = "pkgY" -> "pkgy"
      [] w = "pkgZ" -> "pkgz"
      [] w = "In Progress" -> "in progress"
      [] w = "To Do" -> "to do"
      [] w = "Todo" -> "todo"
      [] w = "Done" -> "done"
      [] w = "Backlog" -> "backlog"
      [] OTHER -> w

\* str.upper() on the words of the model
upper(w) ==
    CASE w = "high" -> "HIGH"
      [] w = "High" -> "HIGH"
      [] w = "low" -> "LOW"
      [] w = "critical" -> "CRITICAL"
      [] w = "open" -> "OPEN"
      [] w = "Open" -> "OPEN"
      [] w = "fixed" -> "FIXED"
      [] w = "Fixed" -> "FIXED"
      [] OTHER -> w

\* 'Package' in w, 'package' in w : the words of the model that hold the text
HasPackageCap(w) == w \in {"Package"}

HasPackageLow(w) == w \in {"package", "my-package"}

\* '|' in line
HasBar(line) == Len(line) >= 2

\* line.strip() == ''
IsBlank(line) == Len(line) = 1 /\ line[1].w = ""

\* line.strip().startswith('|')
StartsWithBar(line) == Len(line) >= 2 /\ line[1].w = ""

\* line.strip().startswith('|---')
StartsWithBarDashes(line) ==
    /\ StartsWithBar(line)
    /\ line[2].l = 0
    /\ line[2].w \in {"---"}

\* '| Package |' in line  (s = "Package")
HasSpacedCell(line, s) ==
    \E i \in 2..(Len(line) - 1) : line[i] = Cell(s)

\* parts = [p.strip() for p in line.split('|')]
Parts(line) == [i \in 1..Len(line) |-> strip(line[i])]

-----------------------------------------------------------------------------
(* close_fixed_issues.py: the body reader *)

CloserIsHeader(line) ==
    /\ HasBar(line)
    /\ \E i \in 1..Len(line) : HasPackageCap(line[i].w) \/ HasPackageLow(line[i].w)

\* the identities one line in table mode adds
CloserRow(line) ==
    LET parts == Parts(line) IN
    IF Len(parts) >= 4
       /\ parts[2] # "" /\ parts[4] # ""
       /\ parts[2] \notin {"Package", "package", "-", "--"}
    THEN {<<parts[2], parts[4]>>}
    ELSE {}

RECURSIVE CloserScan(_, _, _, _)
CloserScan(lines, i, in_table, vuln_ids) ==
    IF i > Len(lines) THEN vuln_ids
    ELSE IF CloserIsHeader(lines[i]) THEN CloserScan(lines, i + 1, TRUE, vuln_ids)
    ELSE IF in_table /\ HasBar(lines[i])
         THEN CloserScan(lines, i + 1, in_table, vuln_ids \cup CloserRow(lines[i]))
    ELSE CloserScan(lines, i + 1, in_table, vuln_ids)

\* body = <<>> is an empty (or None) body
Closer_extract_vulnerability_ids_from_issue(issue_body) ==
    IF issue_body = <<>> THEN {}
    ELSE CloserScan(issue_body, 1, FALSE, {})

-----------------------------------------------------------------------------
(* reopen_fixed.py: the body reader *)

ReopenerIsHeader(line) ==
    HasSpacedCell(line, "Package") \/ HasSpacedCell(line, "Component")

ReopenerRow(line) ==
    LET parts == Parts(line) IN
    IF Len(parts) >= 3
       /\ parts[2] # ""
       /\ lower(parts[2]) \notin {"package", "component", ""}
    THEN {<<parts[2], parts[3]>>}
    ELSE {}

RECURSIVE ReopenerScan(_, _, _, _)
ReopenerScan(lines, i, in_table, vuln_ids) ==
    IF i > Len(lines) THEN vuln_ids
    ELSE IF ReopenerIsHeader(lines[i]) THEN ReopenerScan(lines, i + 1, TRUE, vuln_ids)
    ELSE IF in_table /\ StartsWithBarDashes(lines[i])
         THEN ReopenerScan(lines, i + 1, in_table, vuln_ids)
    ELSE IF in_table /\ StartsWithBar(lines[i])
         THEN ReopenerScan(lines, i + 1, in_table, vuln_ids \cup ReopenerRow(lines[i]))
    ELSE IF in_table /\ IsBlank(lines[i]) THEN vuln_ids
    ELSE ReopenerScan(lines, i + 1, in_table, vuln_ids)

\* main passes issue.body or "" ; "".split('\n') is one blank line
Reopener_extract_vulnerability_ids_from_issue(issue_body) ==
    ReopenerScan(IF issue_body = <<>> THEN <<BlankLine>> ELSE issue_body, 1, FALSE, {})

-----------------------------------------------------------------------------
(* The finding snapshot (detailed_vulnerabilities.csv) and its loaders.     *)
(* snapshot.conv names the header row: "RP" is Repository, Package,         *)
(* Severity, Status and "RNC" is Repository Name, Component, Severity,      *)
(* Status.  A row holds the four fields as pieces.                          *)

Headers(conv) ==
    IF conv = "RP"
    THEN [repo |-> "Repository", pkg |-> "Package", sev |-> "Severity", status |-> "Status"]
    ELSE [repo |-> "Repository Name", pkg |-> "Component", sev |-> "Severity", status |-> "Status"]

\* row.get(name, '') of csv.DictReader
RowGet(conv, row, name) ==
    LET h == Headers(conv) IN
    IF name = h.repo THEN row.repo
    ELSE IF name = h.pkg THEN row.pkg
    ELSE IF name = h.sev THEN row.sev
    ELSE IF name = h.status THEN row.status
    ELSE Edge

\* status == 'open' after .lower() (closer), status == 'OPEN' after .upper()
\* (reopener)
StatusIsOpen(who, status) ==
    IF who = "closer" THEN lower(status) = "open" ELSE upper(status) = "OPEN"

\* the loop of get_current_vulnerabilities with the column names and the
\* status test of the caller; the result is [keys, of]: the dict's keys in
\* insertion order and the set of each key
RECURSIVE LoadRows(_, _, _, _, _, _, _)
LoadRows(conv, rows, i, repoCol, pkgCol, who, acc) ==
    IF i > Len(rows) THEN acc
    ELSE
        LET row == rows[i]
            repo_name == strip(RowGet(conv, row, repoCol))
            package == strip(RowGet(conv, row, pkgCol))
            severity == strip(RowGet(conv, row, "Severity"))
            status == strip(RowGet(conv, row, "Status"))
            id == <<package, severity>>
            had == \E k \in 1..Len(acc.keys) : acc.keys[k] = repo_name
            next ==
                IF StatusIsOpen(who, status) /\ repo_name # "" /\ package # ""
                THEN [keys |-> IF had THEN acc.keys ELSE Append(acc.keys, repo_name),
                      of |-> [r \in DOMAIN acc.of \cup {repo_name} |->
                                 IF r = repo_name
                                 THEN (IF had THEN acc.of[r] ELSE {}) \cup {id}
                                 ELSE acc.of[r]]]
                ELSE acc
        IN LoadRows(conv, rows, i + 1, repoCol, pkgCol, who, next)

NoVulns == [keys |-> <<>>, of |-> <<>>]

Closer_get_current_vulnerabilities(snap) ==
    IF ~snap.exists THEN NoVulns
    ELSE LoadRows(snap.conv, snap.rows, 1, "Repository", "Package", "closer", NoVulns)

Reopener_get_current_vulnerabilities(snap) ==
    IF ~snap.exists THEN NoVulns
    ELSE LoadRows(snap.conv, snap.rows, 1, "Repository Name", "Component", "reopener", NoVulns)

\* current_vulns.get(repo_name, set())
VulnsGet(cur, repo_name) ==
    IF repo_name \in DOMAIN cur.of THEN cur.of[repo_name] ELSE {}

SeqToSet(s) == {s[i] : i \in 1..Len(s)}

-----------------------------------------------------------------------------
(* github_issue_manager.py: the issue body.  rows are the open records of  *)
(* the repository, [package_name, severity] as pieces; the CVSS, advisory  *)
(* and status cells are the defaults of a snapshot without those columns.  *)

\* f"| {package_name} | {severity} | {cvss_score} | {advisory} | {status} |\n"
BodyRow(r) ==
    <<Edge,
      P(1 + r.package_name.l, r.package_name.w, 1 + r.package_name.t),
      P(1 + r.severity.l, upper(r.severity.w), 1 + r.severity.t),
      Cell("N/A"), Cell("No summary"), Cell("Open"), Edge>>

format_issue_body(repository_name, rows) ==
    <<TextLine("# Security Vulnerability Report"), BlankLine,
      TextLine("## All Vulnerabilities Details"), BlankLine,
      TableLine(<<"Package", "Severity", "CVSS", "Advisory", "Status">>),
      SepLine(5)>>
    \o [i \in 1..Len(rows) |-> BodyRow(rows[i])]
    \o <<BlankLine, TextLine("## Recommended Actions"), BlankLine>>

\* format_issue_title builds the title and returns nothing: the caller
\* receives None
None == [repo |-> "", kind |-> "None"]

\* isinstance(title, str)
IsStr(title) == title.kind # "None"

format_issue_title(repository_name, severity_counts) == None

-----------------------------------------------------------------------------
(* The tracker.  An issue is [repo, state, title, labels, body, comments,  *)
(* items, board]: title is [repo, kind] (the repository name the title     *)
(* holds; kind "auto" is "... - Fix all dependabot issues ...", "security" *)
(* a hand-written title with the word security, "plain" any other title);  *)
(* items are the numbers of the projects the issue is linked to and board  *)
(* the Status of each item.                                                *)

Repos == {"alpha", "beta"}

\* sorted() of repository names
RepoOrder == <<"alpha", "beta">>

Sorted(S) == SelectSeq(RepoOrder, LAMBDA r : r \in S)

CanonicalLabel == "security-Vulnerability"

AutoTitle(r) == [repo |-> r, kind |-> "auto"]

\* "fix all dependabot issues" in issue.title.lower()
TitleHasPhrase(title) == title.kind = "auto"

\* any(keyword in issue.title.lower() for keyword in
\*     ['dependabot', 'fix all', 'vulnerability', 'security'])
TitleHasKeyword(title) == title.kind \in {"auto", "security"}

\* repository_name in issue.title
TitleHasRepo(title, repository_name) == title.repo = repository_name

\* the Status field of each project: its id is present, its options in order
ProjectOptions(number) ==
    IF number = 1 THEN <<"Todo", "In Progress", "Done">>
    ELSE IF number = 3 THEN <<"To Do", "Done">>
    ELSE <<"Backlog", "Done">>

\* repo.get_issues(state=..., labels=[label]): the numbers, newest first
RECURSIVE Descending(_)
Descending(S) ==
    IF S = {} THEN <<>>
    ELSE LET m == CHOOSE x \in S : \A y \in S : y <= x
         IN <<m>> \o Descending(S \ {m})

\* the open issues of a repository that bear the canonical label and name
\* the repository in the title
OpenTracking(iss, repo_name) ==
    {n \in 1..Len(iss) :
        /\ iss[n].repo = repo_name
        /\ iss[n].state = "open"
        /\ CanonicalLabel \in iss[n].labels
        /\ TitleHasRepo(iss[n].title, repo_name)}

get_issues(iss, repo_name, state, label) ==
    Descending({n \in 1..Len(iss) :
                   /\ iss[n].repo = repo_name
                   /\ iss[n].state = state
                   /\ label \in iss[n].labels})

-----------------------------------------------------------------------------
(* A run of one script.  run.fails counts the API calls that raised an     *)
(* error, run.raised the exceptions that reached the handler of a          *)
(* repository, an issue or an action, and run.failed holds the             *)
(* repositories they belong to; run.mut counts the mutating API calls the  *)
(* run issued; run.sel holds the issues the run selected (to close, to     *)
(* reopen) or, for the creator, the branch taken for each repository;      *)
(* run.acts is the number of state changes applied to each issue and       *)
(* run.sync what became of each reopened issue: the result of the          *)
(* project-status procedure, whether the comment call raised, whether the  *)
(* issue was counted as reopened.                                          *)

ZeroStats ==
    [checked |-> 0, found |-> 0, closed |-> 0, reopened |-> 0, skipped |-> 0,
     errors |-> 0, created |-> 0, updated |-> 0, labels_created |-> 0,
     project_updated |-> 0]

IdleRun ==
    [script |-> "idle", phase |-> "idle", dry |-> FALSE, force |-> FALSE,
     exit |-> 0, cur |-> NoVulns, work |-> <<>>, visited |-> <<>>,
     failed |-> {}, fails |-> 0, raised |-> 0, mut |-> 0, sel |-> {}, acts |-> <<>>,
     sync |-> <<>>, labels |-> <<>>, start |-> <<>>, stats |-> ZeroStats]

NoSync == [result |-> "", cfail |-> FALSE, counted |-> FALSE]

NewRun(script, dry, force) ==
    [IdleRun EXCEPT !.script = script, !.phase = "running", !.dry = dry,
                    !.force = force, !.start = issues,
                    !.acts = [n \in 1..Len(issues) |-> 0],
                    !.sync = [n \in 1..Len(issues) |-> NoSync]]

\* the scripts of one round, in the order they are run
RoundOrder == <<"creator", "closer", "reopener">>

\* "single": one run of one script; "again": one script run again and again;
\* "rounds": creator, closer, reopener, round after round
CanStart(script) ==
    CASE mode = "single" -> run.phase = "idle"
      [] mode = "again" -> \/ run.phase = "idle"
                           \/ run.phase = "done" /\ run.script = script /\ runs < MaxRuns
      [] mode = "rounds" -> /\ run.phase \in {"idle", "done"}
                            /\ runs < 3 * MaxRounds
                            /\ script = RoundOrder[(runs % 3) + 1]
      [] OTHER -> FALSE

\* an API failure may be injected while the run has failures left
NoFail == <<"none", 0>>

MayFail(f) == f = NoFail \/ (mode = "single" /\ run.fails < MaxFails)

\* the API calls that may be made to fail in the next visit of the script
Visiting(script) == run.script = script /\ run.phase = "running" /\ todo # <<>>

Bump(st, field) == [st EXCEPT ![field] = @ + 1]

-----------------------------------------------------------------------------
(* close_fixed_issues.py *)

\* the closing comment states len(issue_vulns)
ClosingComment(issue_vulns) == [kind |-> "closed", n |-> Cardinality(issue_vulns)]

\* the for loop of close_fixed_issues over open_issues[i..]; c is
\* [iss, stats, mut, sel, acts, raised]; f is the API call that fails
RECURSIVE CloserLoop(_, _, _, _, _, _)
CloserLoop(open_issues, i, current_vulns, dry_run, f, c) ==
    IF i > Len(open_issues) \/ c.raised THEN c
    ELSE
        LET n == open_issues[i]
            issue == c.iss[n]
            issue_vulns == Closer_extract_vulnerability_ids_from_issue(issue.body)
            still_open == issue_vulns \cap current_vulns
            commented == [issue EXCEPT !.comments = Append(@, ClosingComment(issue_vulns))]
            next ==
                IF issue_vulns = {}
                THEN [c EXCEPT !.stats = Bump(@, "skipped")]
                ELSE IF still_open # {}
                THEN [c EXCEPT !.stats = Bump(@, "skipped")]
                ELSE IF dry_run
                THEN [c EXCEPT !.stats = Bump(@, "closed"), !.sel = @ \cup {n}]
                ELSE IF f = <<"comment", n>>
                THEN [c EXCEPT !.mut = @ + 1, !.sel = @ \cup {n}, !.raised = TRUE]
                ELSE IF f = <<"edit", n>>
                THEN [c EXCEPT !.iss[n] = commented, !.mut = @ + 2,
                               !.sel = @ \cup {n}, !.raised = TRUE]
                ELSE [c EXCEPT !.iss[n] = [commented EXCEPT !.state = "closed"],
                               !.mut = @ + 2,
                               !.acts[n] = @ + 1,
                               !.sel = @ \cup {n},
                               !.stats = Bump(@, "closed")]
        IN CloserLoop(open_issues, i + 1, current_vulns, dry_run, f, next)

\* a closer that leaves the loop after the first issue of the repository
close_fixed_issues_first_only(repo_name, current_vulns, f) ==
    LET open_issues == get_issues(issues, repo_name, "open", CanonicalLabel)
        c0 == [iss |-> issues, stats |-> run.stats, mut |-> run.mut,
               sel |-> run.sel, acts |-> run.acts, raised |-> FALSE]
        c1 == IF f \in {<<"get_repo", 0>>, <<"get_issues", 0>>}
              THEN [c0 EXCEPT !.raised = TRUE]
              ELSE IF open_issues = <<>> THEN c0
              ELSE CloserLoop(SubSeq(open_issues, 1, 1), 1, current_vulns, run.dry, f,
                              [c0 EXCEPT !.stats.found = @ + Len(open_issues)])
    IN IF c1.raised THEN [c1 EXCEPT !.stats = Bump(@, "errors")] ELSE c1

\* close_fixed_issues(repo_name, current_vulns), with its two except clauses
close_fixed_issues(repo_name, current_vulns, f) ==
    LET open_issues == get_issues(issues, repo_name, "open", CanonicalLabel)
        c0 == [iss |-> issues, stats |-> run.stats, mut |-> run.mut,
               sel |-> run.sel, acts |-> run.acts, raised |-> FALSE]
        c1 == IF f \in {<<"get_repo", 0>>, <<"get_issues", 0>>}
              THEN [c0 EXCEPT !.raised = TRUE]
              ELSE IF open_issues = <<>> THEN c0
              ELSE CloserLoop(open_issues, 1, current_vulns, run.dry, f,
                              [c0 EXCEPT !.stats.found = @ + Len(open_issues)])
    IN IF c1.raised THEN [c1 EXCEPT !.stats = Bump(@, "errors")] ELSE c1

\* the API calls of one visit that can fail
CloserFailPoints(repo_name) ==
    {NoFail, <<"get_repo", 0>>, <<"get_issues", 0>>}
    \cup {<<k, n>> : k \in {"comment", "edit"},
                     n \in SeqToSet(get_issues(issues, repo_name, "open", CanonicalLabel))}

\* main up to the end of the enumeration in process_all_repositories.
\* enum is the failure of the enumeration: "org" (get_repos raises), a
\* repository name (its get_issues raises) or "none".
CloserStart(dry, enum) ==
    /\ CanStart("closer")
    /\ mode = "rounds" => ~dry
    /\ runs' = runs + 1
    /\ IF ~snapshot.exists
       THEN /\ enum = "none"
            /\ run' = [NewRun("closer", dry, FALSE) EXCEPT !.exit = 1]
            /\ todo' = <<>>
       ELSE LET current_vulns == Closer_get_current_vulnerabilities(snapshot)
                keys == SeqToSet(current_vulns.keys)
                withIssues ==
                    IF enum = "org" THEN {}
                    ELSE {r \in Repos \ keys :
                             /\ r # enum
                             /\ get_issues(issues, r, "open", CanonicalLabel) # <<>>}
                all_repo_names == keys \cup withIssues
            IN /\ (enum = "none" \/ (mode = "single" /\ MaxFails > 0))
               /\ enum \in Repos => enum \notin keys
               /\ run' = [NewRun("closer", dry, FALSE) EXCEPT
                             !.cur = current_vulns,
                             !.work = Sorted(all_repo_names),
                             !.failed = IF enum = "none" THEN {}
                                        ELSE IF enum = "org" THEN Repos \ keys
                                        ELSE {enum}]
               /\ todo' = Sorted(all_repo_names)
    /\ prev' = run
    /\ UNCHANGED <<snapshot, issues, repoLabels, mode, out>>

\* a loop of process_all_repositories that ends at the first repository
\* whose processing raised
CloserVisit_stop_on_error(f) ==
    /\ Visiting("closer")
    /\ f \in CloserFailPoints(Head(todo))
    /\ MayFail(f)
    /\ LET repo_name == Head(todo)
           c == close_fixed_issues(repo_name, VulnsGet(run.cur, repo_name), f)
       IN /\ issues' = c.iss
          /\ run' = [run EXCEPT !.stats = Bump(c.stats, "checked"),
                                !.mut = c.mut, !.sel = c.sel, !.acts = c.acts,
                                !.visited = Append(@, repo_name),
                                !.fails = IF c.raised THEN @ + 1 ELSE @,
                                !.raised = IF c.raised THEN @ + 1 ELSE @,
                                !.failed = IF c.raised THEN @ \cup {repo_name} ELSE @]
          /\ todo' = IF c.raised THEN <<>> ELSE Tail(todo)
    /\ UNCHANGED <<snapshot, repoLabels, prev, runs, mode, out>>

\* one iteration of the loop of process_all_repositories
CloserVisit(f) ==
    /\ Visiting("closer")
    /\ f \in CloserFailPoints(Head(todo))
    /\ MayFail(f)
    /\ LET repo_name == Head(todo)
           c == close_fixed_issues(repo_name, VulnsGet(run.cur, repo_name), f)
       IN /\ issues' = c.iss
          /\ run' = [run EXCEPT !.stats = Bump(c.stats, "checked"),
                                !.mut = c.mut, !.sel = c.sel, !.acts = c.acts,
                                !.visited = Append(@, repo_name),
                                !.fails = IF c.raised THEN @ + 1 ELSE @,
                                !.raised = IF c.raised THEN @ + 1 ELSE @,
                                !.failed = IF c.raised THEN @ \cup {repo_name} ELSE @]
    /\ todo' = Tail(todo)
    /\ UNCHANGED <<snapshot, repoLabels, prev, runs, mode, out>>

\* the summary at the end of main
RunEnd ==
    /\ run.phase = "running" /\ todo = <<>>
    /\ run' = [run EXCEPT !.phase = "done",
                          !.exit = IF run.exit = 1 \/ (run.script = "creator"
                                                          /\ run.stats.errors > 0)
                                   THEN 1 ELSE 0]
    /\ out' = IF mode = "rounds"
              THEN Append(out, [script |-> run.script, mut |-> run.mut,
                                force |-> run.force, labels |-> run.labels,
                                states |-> [n \in 1..Len(issues) |-> issues[n].state]])
              ELSE out
    /\ UNCHANGED <<snapshot, issues, repoLabels, todo, prev, runs, mode>>

-----------------------------------------------------------------------------
(* reopen_fixed.py *)

\* the loop over status_field.get('options', []) : the option it leaves in
\* target_option_id ("" is None)
\* an option loop without the break: the last option of either group
RECURSIVE TargetOption_last_of_either(_, _, _)
TargetOption_last_of_either(options, i, target) ==
    IF i > Len(options) THEN target
    ELSE IF lower(options[i]) \in {"in progress", "in-progress", "inprogress",
                                   "todo", "to do", "to-do", "open"}
    THEN TargetOption_last_of_either(options, i + 1, options[i])
    ELSE TargetOption_last_of_either(options, i + 1, target)

RECURSIVE TargetOption(_, _, _)
TargetOption(options, i, target) ==
    IF i > Len(options) THEN target
    ELSE LET option_name == lower(options[i]) IN
         IF option_name \in {"in progress", "in-progress", "inprogress"}
         THEN options[i]
         ELSE IF option_name \in {"todo", "to do", "to-do", "open"}
         THEN TargetOption(options, i + 1, options[i])
         ELSE TargetOption(options, i + 1, target)

\* the loop of update_project_status_to_in_progress over project_items[k..];
\* p is [board, mut, result]: result is "continue" while the loop runs,
\* "true" on return True and "raise" when a request raises
RECURSIVE ProjectLoop(_, _, _, _, _)
ProjectLoop(items, k, n, f, p) ==
    IF k > Len(items) \/ p.result # "continue" THEN p
    ELSE
        LET target_option_id == TargetOption(ProjectOptions(items[k]), 1, "")
            next ==
                IF f = <<"proj_raise", n, k>> THEN [p EXCEPT !.result = "raise"]
                ELSE IF f = <<"proj_bad", n, k>> THEN p
                ELSE IF target_option_id = "" THEN p
                ELSE IF f = <<"mut_raise", n, k>>
                THEN [p EXCEPT !.mut = @ + 1, !.result = "raise"]
                ELSE IF f = <<"mut_bad", n, k>> THEN [p EXCEPT !.mut = @ + 1]
                ELSE [p EXCEPT !.mut = @ + 1, !.board[k] = target_option_id,
                               !.result = "true"]
        IN ProjectLoop(items, k + 1, n, f, next)

\* update_project_status_to_in_progress for issue n: result "true", "false"
\* or "raise"
update_project_status_to_in_progress(issue, n, f) ==
    LET p0 == [board |-> issue.board, mut |-> 0, result |-> "continue"] IN
    IF f = <<"items_raise", n, 0>> THEN [p0 EXCEPT !.result = "raise"]
    ELSE IF f = <<"items_bad", n, 0>> THEN [p0 EXCEPT !.result = "false"]
    ELSE IF issue.items = <<>> THEN [p0 EXCEPT !.result = "false"]
    ELSE LET p == ProjectLoop(issue.items, 1, n, f, p0)
         IN IF p.result = "continue" THEN [p EXCEPT !.result = "false"] ELSE p

ReopenComment(still_open) == [kind |-> "reopened", n |-> Cardinality(still_open)]

\* the body of "if not args.dry_run" for issue n, with its except clause
ReopenLive(c, n, still_open, f) ==
    IF f = <<"edit", n, 0>>
    THEN [c EXCEPT !.mut = @ + 1, !.stats = Bump(@, "errors"), !.raised = TRUE]
    ELSE
        LET opened == [c.iss[n] EXCEPT !.state = "open"]
            p == update_project_status_to_in_progress(opened, n, f)
            synced == [opened EXCEPT !.board = p.board]
            c1 == [c EXCEPT !.iss[n] = synced, !.mut = @ + 1 + p.mut, !.acts[n] = @ + 1,
                            !.sync[n].result = p.result]
            c2 == IF p.result = "true"
                  THEN [c1 EXCEPT !.stats = Bump(@, "project_updated")] ELSE c1
        IN IF p.result = "raise"
           THEN [c1 EXCEPT !.stats = Bump(@, "errors"), !.raised = TRUE]
           ELSE IF f = <<"comment", n, 0>>
           THEN [c2 EXCEPT !.mut = @ + 1, !.stats = Bump(@, "errors"),
                           !.sync[n].cfail = TRUE, !.raised = TRUE]
           ELSE [c2 EXCEPT !.iss[n].comments = Append(@, ReopenComment(still_open)),
                           !.mut = @ + 1,
                           !.sync[n].counted = TRUE,
                           !.stats = Bump(@, "reopened")]

\* the for loop of main over the closed issues[i..] of one repository
RECURSIVE ReopenerLoop(_, _, _, _, _, _)
ReopenerLoop(closed, i, repo_current_vulns, dry_run, f, c) ==
    IF i > Len(closed) THEN c
    ELSE
        LET n == closed[i]
            issue == c.iss[n]
            issue_vulns == Reopener_extract_vulnerability_ids_from_issue(issue.body)
            still_open == issue_vulns \cap repo_current_vulns
            c0 == [c EXCEPT !.stats = Bump(@, "checked")]
            next ==
                IF ~TitleHasPhrase(issue.title) THEN c0
                ELSE IF issue_vulns = {} THEN c0
                ELSE IF still_open = {} THEN [c0 EXCEPT !.stats = Bump(@, "skipped")]
                ELSE IF dry_run
                THEN [c0 EXCEPT !.stats = Bump(@, "reopened"), !.sel = @ \cup {n}]
                ELSE ReopenLive([c0 EXCEPT !.sel = @ \cup {n}], n, still_open, f)
        IN ReopenerLoop(closed, i + 1, repo_current_vulns, dry_run, f, next)

\* a reopener whose dry run returns before it looks at the issues
reopen_repository_blind_dry_run(repo_name, repo_current_vulns, f) ==
    LET closed == get_issues(issues, repo_name, "closed", CanonicalLabel)
        c0 == [iss |-> issues, stats |-> run.stats, mut |-> run.mut,
               sel |-> run.sel, acts |-> run.acts, sync |-> run.sync,
               raised |-> FALSE]
    IN IF f \in {<<"get_repo", 0, 0>>, <<"get_issues", 0, 0>>}
       THEN [c0 EXCEPT !.stats = Bump(@, "errors"), !.raised = TRUE]
       ELSE IF run.dry THEN c0
       ELSE ReopenerLoop(closed, 1, repo_current_vulns, run.dry, f, c0)

\* one iteration of "for repo_name in current_vulns.keys()", with its
\* except clause
reopen_repository(repo_name, repo_current_vulns, f) ==
    LET closed == get_issues(issues, repo_name, "closed", CanonicalLabel)
        c0 == [iss |-> issues, stats |-> run.stats, mut |-> run.mut,
               sel |-> run.sel, acts |-> run.acts, sync |-> run.sync,
               raised |-> FALSE]
    IN IF f \in {<<"get_repo", 0, 0>>, <<"get_issues", 0, 0>>}
       THEN [c0 EXCEPT !.stats = Bump(@, "errors"), !.raised = TRUE]
       ELSE ReopenerLoop(closed, 1, repo_current_vulns, run.dry, f, c0)

ReopenerFailPoints(repo_name) ==
    LET closed == SeqToSet(get_issues(issues, repo_name, "closed", CanonicalLabel)) IN
    {NoFail, <<"get_repo", 0, 0>>, <<"get_issues", 0, 0>>}
    \cup {<<k, n, 0>> : k \in {"edit", "items_raise", "items_bad", "comment"}, n \in closed}
    \cup UNION {{<<k, n, j>> : k \in {"proj_raise", "proj_bad", "mut_raise", "mut_bad"},
                               j \in 1..Len(issues[n].items)} : n \in closed}

\* main up to the start of the loop over current_vulns.keys()
ReopenerStart(dry) ==
    /\ CanStart("reopener")
    /\ mode = "rounds" => ~dry
    /\ runs' = runs + 1
    /\ LET current_vulns == Reopener_get_current_vulnerabilities(snapshot) IN
       IF current_vulns.keys = <<>>
       THEN /\ run' = NewRun("reopener", dry, FALSE)
            /\ todo' = <<>>
       ELSE /\ run' = [NewRun("reopener", dry, FALSE) EXCEPT
                          !.cur = current_vulns, !.work = current_vulns.keys]
            /\ todo' = current_vulns.keys
    /\ prev' = run
    /\ UNCHANGED <<snapshot, issues, repoLabels, mode, out>>

\* a loop over current_vulns.keys() that ends at the first repository whose
\* processing raised
ReopenerVisit_stop_on_error(f) ==
    /\ Visiting("reopener")
    /\ f \in ReopenerFailPoints(Head(todo))
    /\ MayFail(f)
    /\ LET repo_name == Head(todo)
           c == reopen_repository(repo_name, VulnsGet(run.cur, repo_name), f)
       IN /\ issues' = c.iss
          /\ run' = [run EXCEPT !.stats = c.stats,
                                !.mut = c.mut, !.sel = c.sel, !.acts = c.acts,
                                !.sync = c.sync,
                                !.visited = Append(@, repo_name),
                                !.fails = IF c.raised THEN @ + 1 ELSE @,
                                !.raised = IF c.raised THEN @ + 1 ELSE @,
                                !.failed = IF c.raised THEN @ \cup {repo_name} ELSE @]
          /\ todo' = IF c.raised THEN <<>> ELSE Tail(todo)
    /\ UNCHANGED <<snapshot, repoLabels, prev, runs, mode, out>>

ReopenerVisit(f) ==
    /\ Visiting("reopener")
    /\ f \in ReopenerFailPoints(Head(todo))
    /\ MayFail(f)
    /\ LET repo_name == Head(todo)
           c == reopen_repository(repo_name, VulnsGet(run.cur, repo_name), f)
       IN /\ issues' = c.iss
          /\ run' = [run EXCEPT !.stats = c.stats,
                                !.mut = c.mut, !.sel = c.sel, !.acts = c.acts,
                                !.sync = c.sync,
                                !.visited = Append(@, repo_name),
                                !.fails = IF c.raised THEN @ + 1 ELSE @,
                                !.raised = IF c.raised THEN @ + 1 ELSE @,
                                !.failed = IF c.raised THEN @ \cup {repo_name} ELSE @]
    /\ todo' = Tail(todo)
    /\ UNCHANGED <<snapshot, repoLabels, prev, runs, mode, out>>

-----------------------------------------------------------------------------
(* create_security_issues.py *)

\* load_vulnerability_data: the column names after the renaming
CreatorColumns(conv) ==
    IF conv = "RNC"
    THEN {"repository", "package_name", "severity", "alert_state"}
    ELSE {"Repository", "Package", "severity", "alert_state"}

\* df['alert_state'].str.lower() and the status mapping; pandas strips nothing
AlertState(row) == P(row.status.l, lower(row.status.w), row.status.t)

IsOpenRow(row) == AlertState(row) = P(0, "open", 0)

\* the pieces of s without repetition, in order of first appearance
RECURSIVE Unique(_)
Unique(s) ==
    IF s = <<>> THEN <<>>
    ELSE LET u == Unique(SubSeq(s, 1, Len(s) - 1))
             x == s[Len(s)]
         IN IF x \in SeqToSet(u) THEN u ELSE Append(u, x)

\* vulnerability_data[alert_state == 'open']['repository'].unique()
ReposWithVulns(snap) ==
    LET open == SelectSeq(snap.rows, IsOpenRow)
    IN Unique([i \in 1..Len(open) |-> open[i].repo])

\* the rows of repo_data: repository == repository_name and open
RepoData(snap, repo) ==
    LET rows == SelectSeq(snap.rows, LAMBDA row : row.repo = repo /\ IsOpenRow(row))
    IN [i \in 1..Len(rows) |-> [package_name |-> rows[i].pkg, severity |-> rows[i].sev]]

\* analyze_repository_vulnerabilities: severity_counts['total']
SeverityTotal(repo_data) ==
    Cardinality({i \in 1..Len(repo_data) :
                     /\ repo_data[i].severity.l = 0 /\ repo_data[i].severity.t = 0
                     /\ lower(repo_data[i].severity.w) \in {"critical", "high", "medium", "low"}})

\* ensure_label_exists for labels[j..]; d is [labs, mut, created]
RECURSIVE EnsureLabels(_, _, _, _)
EnsureLabels(labels, j, f, d) ==
    IF j > Len(labels) THEN d
    ELSE
        LET label == labels[j]
            found == label \in d.labs /\ f # <<"get_label", j>>
            next ==
                IF found THEN [d EXCEPT !.ok = Append(@, TRUE)]
                ELSE IF label \in d.labs \/ f = <<"create_label", j>>
                THEN [d EXCEPT !.mut = @ + 1, !.ok = Append(@, FALSE)]
                ELSE [d EXCEPT !.labs = @ \cup {label}, !.mut = @ + 1,
                               !.created = @ + 1, !.ok = Append(@, TRUE)]
        IN EnsureLabels(labels, j + 1, f, next)

\* the first issue of the list that names the repository with a keyword,
\* 0 is None
RECURSIVE FirstMatch(_, _, _)
FirstMatch(list, i, repository_name) ==
    IF i > Len(list) THEN 0
    ELSE IF TitleHasRepo(issues[list[i]].title, repository_name)
            /\ TitleHasKeyword(issues[list[i]].title)
    THEN list[i]
    ELSE FirstMatch(list, i + 1, repository_name)

\* an existence query that never finds an issue
check_existing_finds_nothing(repository_name, f) == 0

check_existing_vulnerability_issue(repository_name, f) ==
    IF f = <<"check_repo", 0>> THEN 0
    ELSE IF f = <<"check", 0>>
    THEN FirstMatch(Descending({n \in 1..Len(issues) :
                                   /\ issues[n].repo = repository_name
                                   /\ issues[n].state = "open"
                                   /\ {"security", "vulnerability"} \subseteq issues[n].labels}),
                    1, repository_name)
    ELSE FirstMatch(get_issues(issues, repository_name, "open", CanonicalLabel),
                    1, repository_name)

\* create_new_issue; c is [iss, stats, mut, raised].  create_issue takes a
\* str title: any other value raises before a request is sent.
create_new_issue(c, repository_name, repo_data, labels, f) ==
    LET title == format_issue_title(repository_name, SeverityTotal(repo_data))
        body == format_issue_body(repository_name, repo_data)
    IN IF ~IsStr(title)
       THEN [c EXCEPT !.stats = Bump(@, "errors"), !.raised = TRUE]
       ELSE IF f = <<"write", 0>>
       THEN [c EXCEPT !.stats = Bump(@, "errors"), !.mut = @ + 1, !.raised = TRUE]
       ELSE [c EXCEPT !.iss = Append(@, [repo |-> repository_name, state |-> "open",
                                         title |-> title, labels |-> SeqToSet(labels),
                                         body |-> body, comments |-> <<>>,
                                         items |-> <<>>, board |-> <<>>]),
                      !.mut = @ + 1,
                      !.stats = Bump(@, "created")]

\* an update that sets the label list to the requested labels
update_existing_issue_replace_labels(c, n, repository_name, repo_data, labels, f) ==
    [c EXCEPT !.iss[n].labels = SeqToSet(labels),
              !.stats = Bump(@, "errors"), !.raised = TRUE]

\* update_existing_issue: two edit calls
update_existing_issue(c, n, repository_name, repo_data, labels, f) ==
    LET new_title == format_issue_title(repository_name, SeverityTotal(repo_data))
        new_body == format_issue_body(repository_name, repo_data)
    IN IF ~IsStr(new_title)
       THEN [c EXCEPT !.stats = Bump(@, "errors"), !.raised = TRUE]
       ELSE IF f = <<"write", 0>>
       THEN [c EXCEPT !.stats = Bump(@, "errors"), !.mut = @ + 1, !.raised = TRUE]
       ELSE IF f = <<"write_labels", 0>>
       THEN [c EXCEPT !.iss[n].title = new_title, !.iss[n].body = new_body,
                      !.stats = Bump(@, "errors"), !.mut = @ + 2, !.raised = TRUE]
       ELSE [c EXCEPT !.iss[n].title = new_title, !.iss[n].body = new_body,
                      !.iss[n].labels = @ \cup SeqToSet(labels),
                      !.mut = @ + 2,
                      !.stats = Bump(@, "updated")]

CreatorFailPoints ==
    {NoFail, <<"get_repo", 0>>, <<"check_repo", 0>>, <<"check", 0>>,
     <<"write", 0>>, <<"write_labels", 0>>}
    \cup {<<k, j>> : k \in {"get_label", "create_label"}, j \in 1..Len(run.labels)}

\* the label lists main can pass: the default and a --labels override
LabelArgs == {<<CanonicalLabel>>, <<"bug", "security">>}

\* main up to the start of the loop of create_issues_for_repositories
CreatorStart(force, labels) ==
    /\ CanStart("creator")
    /\ (mode = "rounds" /\ out # <<>>) => (force = out[1].force /\ labels = out[1].labels)
    /\ runs' = runs + 1
    /\ LET new == [NewRun("creator", FALSE, force) EXCEPT !.labels = labels]
           required == {"repository", "alert_state"}
       IN
       IF ~snapshot.exists \/ snapshot.rows = <<>>
          \/ ~(required \subseteq CreatorColumns(snapshot.conv))
       THEN /\ run' = [new EXCEPT !.exit = 1]
            /\ todo' = <<>>
       ELSE /\ run' = [new EXCEPT !.work = ReposWithVulns(snapshot)]
            /\ todo' = ReposWithVulns(snapshot)
    /\ prev' = run
    /\ UNCHANGED <<snapshot, issues, repoLabels, mode, out>>

\* the branch one iteration takes
Decision(existing_issue, repo_data, known, f) ==
    IF ~known \/ f = <<"get_repo", 0>> THEN "error"
    ELSE IF existing_issue # 0 /\ ~run.force THEN "skip"
    ELSE IF SeverityTotal(repo_data) = 0 THEN "none"
    ELSE IF existing_issue # 0 THEN "update"
    ELSE "create"

\* one iteration of the loop of create_issues_for_repositories; the work
\* list holds the repository fields as pieces
CreatorVisit(f) ==
    /\ Visiting("creator")
    /\ f \in CreatorFailPoints
    /\ MayFail(f)
    /\ LET repo == Head(todo)
           repo_name == repo.w
           known == repo.l = 0 /\ repo.t = 0 /\ repo_name \in Repos
           c0 == [iss |-> issues, stats |-> run.stats, mut |-> run.mut, raised |-> FALSE]
           d0 == [labs |-> IF known THEN repoLabels[repo_name] ELSE {},
                  mut |-> 0, created |-> 0, ok |-> <<>>]
           d == EnsureLabels(run.labels, 1, f, d0)
           c1 == [c0 EXCEPT !.mut = @ + d.mut, !.stats.labels_created = @ + d.created]
           existing_issue == check_existing_vulnerability_issue(repo_name, f)
           repo_data == RepoData(snapshot, repo)
           decision == Decision(existing_issue, repo_data, known, f)
           title == format_issue_title(repo_name, SeverityTotal(repo_data))
           \* the call that f names is made and raises
           Hit == \/ f = <<"get_repo", 0>>
                  \/ /\ known
                     /\ \/ f \in {<<"check", 0>>, <<"check_repo", 0>>}
                        \/ \E j \in 1..Len(run.labels) :
                              \/ f = <<"get_label", j>> /\ run.labels[j] \in repoLabels[repo_name]
                              \/ f = <<"create_label", j>> /\ run.labels[j] \notin repoLabels[repo_name]
                        \/ f = <<"write", 0>> /\ decision \in {"create", "update"} /\ IsStr(title)
                        \/ f = <<"write_labels", 0>> /\ decision = "update" /\ IsStr(title)
           c == IF ~known \/ f = <<"get_repo", 0>>
                THEN [c0 EXCEPT !.stats = Bump(@, "errors"), !.raised = TRUE]
                ELSE IF existing_issue # 0 /\ ~run.force
                THEN [c1 EXCEPT !.stats = Bump(@, "skipped")]
                ELSE IF SeverityTotal(repo_data) = 0 THEN c1
                ELSE IF existing_issue # 0
                THEN update_existing_issue(c1, existing_issue, repo_name, repo_data,
                                           run.labels, f)
                ELSE create_new_issue(c1, repo_name, repo_data, run.labels, f)
       IN /\ issues' = c.iss
          /\ repoLabels' = IF known /\ f # <<"get_repo", 0>>
                           THEN [repoLabels EXCEPT ![repo_name] = d.labs]
                           ELSE repoLabels
          /\ run' = [run EXCEPT !.stats = c.stats, !.mut = c.mut,
                                !.visited = Append(@, repo_name),
                                !.sel = @ \cup {[repo |-> repo_name,
                                                  action |-> decision,
                                                  issue |-> existing_issue,
                                                  ensured |-> IF known /\ f # <<"get_repo", 0>>
                                                              THEN d.ok ELSE <<>>,
                                                  queried |-> f \notin {<<"check", 0>>, <<"check_repo", 0>>, <<"get_repo", 0>>},
                                                  match |-> OpenTracking(issues, repo_name) # {},
                                                  keyword |-> \E n \in OpenTracking(issues, repo_name) :
                                                                  TitleHasKeyword(issues[n].title)]},
                                !.fails = IF Hit THEN @ + 1 ELSE @,
                                !.raised = IF c.raised THEN @ + 1 ELSE @,
                                !.failed = IF c.raised \/ Hit THEN @ \cup {repo_name} ELSE @]
    /\ todo' = Tail(todo)
    /\ UNCHANGED <<snapshot, prev, runs, mode, out>>

-----------------------------------------------------------------------------
(* Initial states *)

Row(repo, pkg, sev, status) ==
    [repo |-> P(0, repo, 0), pkg |-> P(0, pkg, 0), sev |-> P(0, sev, 0),
     status |-> P(0, status, 0)]

RowSets ==
    {<<Row("alpha", "pkgX", "HIGH", "open"), Row("beta", "pkgY", "LOW", "fixed")>>,
     <<Row("beta", "pkgY", "LOW", "open"), Row("alpha", "pkgX", "HIGH", "open")>>,
     <<Row("alpha", "pkgX", "HIGH", "fixed")>>,
     <<Row("alpha", "pkgZ", "MODERATE", "open")>>}

Snapshots ==
    {[exists |-> FALSE, conv |-> "RNC", rows |-> <<>>]}
    \cup {[exists |-> TRUE, conv |-> c, rows |-> r] : c \in {"RP", "RNC"}, r \in RowSets}

Finding(pkg, sev) == [package_name |-> P(0, pkg, 0), severity |-> P(0, sev, 0)]

\* a body without a table, a generated body, a generated body without rows,
\* a table header with nothing under it, and a hand-written table
\* | Package | Version | Severity |
BodyNone == <<TextLine("text"), BlankLine>>

BodyBare == <<TableLine(<<"Package", "Severity">>), BlankLine>>

BodyGen(pkg, sev) == format_issue_body("", <<Finding(pkg, sev)>>)

BodyHeaderOnly == format_issue_body("", <<>>)

BodyOld(pkg, sev) ==
    <<TableLine(<<"Package", "Version", "Severity">>), SepLine(3),
      TableLine(<<pkg, "1.0", sev>>), BlankLine>>

Issue(repo, kind, body, items) ==
    [repo |-> repo, state |-> "open", title |-> [repo |-> repo, kind |-> kind],
     labels |-> {CanonicalLabel}, body |-> body, comments |-> <<>>,
     items |-> items, board |-> [k \in 1..Len(items) |-> "Done"]]

IssueTemplates ==
    {Issue("alpha", "auto", BodyGen("pkgX", "HIGH"), <<1>>),
     Issue("alpha", "auto", BodyOld("pkgX", "HIGH"), <<>>),
     Issue("alpha", "auto", BodyNone, <<>>),
     Issue("alpha", "auto", BodyHeaderOnly, <<1>>),
     Issue("alpha", "auto", BodyBare, <<>>),
     Issue("beta", "plain", BodyGen("pkgY", "LOW"), <<>>),
     Issue("beta", "auto", BodyGen("pkgY", "LOW"), <<2, 1>>),
     Issue("beta", "security", BodyGen("pkgY", "LOW"), <<1>>),
     Issue("beta", "auto", <<>>, <<>>)}

InitIssues ==
    {[t EXCEPT !.state = st] : t \in IssueTemplates, st \in {"open", "closed"}}

\* every label an issue bears is defined in its repository
LabelsOf(iss) ==
    [r \in Repos |-> UNION {iss[n].labels : n \in {m \in 1..Len(iss) : iss[m].repo = r}}]

InitTracker(md) ==
    /\ snapshot \in Snapshots
    /\ issues \in UNION {[1..k -> InitIssues] : k \in 1..MaxIssues}
    /\ repoLabels = LabelsOf(issues)
    /\ run = IdleRun
    /\ todo = <<>>
    /\ prev = IdleRun
    /\ runs = 0
    /\ mode = md
    /\ out = <<>>

Init == InitTracker("single")

InitAgain == InitTracker("again")

InitRounds == InitTracker("rounds")

Next ==
    \/ \E dry \in BOOLEAN, enum \in {"none", "org"} \cup Repos : CloserStart(dry, enum)
    \/ \E f \in (IF Visiting("closer") THEN CloserFailPoints(Head(todo)) ELSE {}) :
           CloserVisit(f)
    \/ \E dry \in BOOLEAN : ReopenerStart(dry)
    \/ \E f \in (IF Visiting("reopener") THEN ReopenerFailPoints(Head(todo)) ELSE {}) :
           ReopenerVisit(f)
    \/ \E force \in BOOLEAN, labels \in LabelArgs : CreatorStart(force, labels)
    \/ \E f \in (IF Visiting("creator") THEN CreatorFailPoints ELSE {}) :
           CreatorVisit(f)
    \/ RunEnd

Spec == Init /\ [][Next]_vars

\* the records of a snapshot, to be written with either header row
LoadRecords ==
    {[repo |-> P(0, r, 0), pkg |-> P(0, p, 0), sev |-> P(0, "HIGH", 0), status |-> st] :
        r \in Repos, p \in {"pkgX", ""},
        st \in {P(0, "open", 0), P(0, "OPEN", 0), P(0, "fixed", 0), P(0, "open", 1)}}

InitLoad ==
    /\ snapshot \in {[exists |-> TRUE, conv |-> "RP", rows |-> r] :
                        r \in UNION {[1..k -> LoadRecords] : k \in 0..2}}
    /\ issues = <<>>
    /\ repoLabels = [r \in Repos |-> {}]
    /\ run = IdleRun
    /\ todo = <<>>
    /\ prev = IdleRun
    /\ runs = 0
    /\ mode = "load"
    /\ out = <<>>

\* what create_issues_for_repositories gets for each repository from
\* load_vulnerability_data: ok is FALSE when main exits on the data
Creator_open_findings(snap) ==
    IF snap.rows = <<>> \/ ~({"repository", "alert_state"} \subseteq CreatorColumns(snap.conv))
    THEN [ok |-> FALSE, of |-> [r \in Repos |-> {}]]
    ELSE [ok |-> TRUE,
          of |-> [r \in Repos |-> SeqToSet(RepoData(snap, P(0, r, 0)))]]

\* the records are written with the header row of conv and each entry point
\* loads the file
LoadSnapshot(conv) ==
    /\ mode = "load"
    /\ \A i \in 1..Len(out) : out[i].conv # conv
    /\ snapshot' = [snapshot EXCEPT !.conv = conv]
    /\ out' = Append(out,
                     [conv |-> conv,
                      closer |-> [r \in Repos |->
                                     VulnsGet(Closer_get_current_vulnerabilities(snapshot'), r)],
                      reopener |-> [r \in Repos |->
                                     VulnsGet(Reopener_get_current_vulnerabilities(snapshot'), r)],
                      creator |-> Creator_open_findings(snapshot')])
    /\ UNCHANGED <<issues, repoLabels, run, todo, prev, runs, mode>>

NextLoad == \E conv \in {"RP", "RNC"} : LoadSnapshot(conv)

SpecLoad == InitLoad /\ [][NextLoad]_vars

\* the state of a specification that applies one function to inputs held in
\* todo and collects the results in out
InitInputs(md, inputs) ==
    /\ snapshot = [exists |-> FALSE, conv |-> "RNC", rows |-> <<>>]
    /\ issues = <<>>
    /\ repoLabels = [r \in Repos |-> {}]
    /\ run = IdleRun
    /\ prev = IdleRun
    /\ runs = 0
    /\ mode = md
    /\ out = <<>>
    /\ todo \in {<<x>> : x \in inputs}

\* the arguments of format_issue_title
InitTitle ==
    InitInputs("title",
               {[repository_name |-> r,
                 severity_counts |-> [critical |-> c, high |-> h, medium |-> m, low |-> l]] :
                    r \in Repos, c \in 0..MaxCount, h \in 0..MaxCount,
                    m \in 0..MaxCount, l \in 0..MaxCount})

\* title = self.issue_manager.format_issue_title(repository_name, severity_counts)
FormatTitle ==
    /\ mode = "title" /\ todo # <<>>
    /\ out' = Append(out, [repository_name |-> Head(todo).repository_name,
                           severity_counts |-> Head(todo).severity_counts,
                           title |-> format_issue_title(Head(todo).repository_name,
                                                        Head(todo).severity_counts)])
    /\ todo' = Tail(todo)
    /\ UNCHANGED <<snapshot, issues, repoLabels, run, prev, runs, mode>>

NextTitle == FormatTitle

SpecTitle == InitTitle /\ [][NextTitle]_vars

\* the names a Status field can give its options
OptionNames == {"In Progress", "inprogress", "Todo", "To Do", "Open", "Done"}

\* status_field.get('options', []): every list of options, in every order
InitOptions ==
    InitInputs("options", UNION {[1..k -> OptionNames] : k \in 0..MaxOptions})

\* the option loop and the test that guards the mutation
SelectOption ==
    /\ mode = "options" /\ todo # <<>>
    /\ LET target_option_id == TargetOption(Head(todo), 1, "")
       IN out' = Append(out, [options |-> Head(todo),
                              target_option_id |-> target_option_id,
                              mutation |-> target_option_id # ""])
    /\ todo' = Tail(todo)
    /\ UNCHANGED <<snapshot, issues, repoLabels, run, prev, runs, mode>>

NextOptions == SelectOption

SpecOptions == InitOptions /\ [][NextOptions]_vars

\* the open findings of one repository: the rows of repo_data
InitBody ==
    InitInputs("body",
               UNION {[1..k -> {Finding(pkg, sev) : pkg \in {"pkgX", "pkgY", "pkgZ"},
                                                    sev \in {"HIGH", "high", "LOW"}}] :
                         k \in 0..MaxFindings})

\* the body of format_issue_body read by the closer and by the reopener
ReadBody ==
    /\ mode = "body" /\ todo # <<>>
    /\ LET body == format_issue_body("alpha", Head(todo))
       IN out' = Append(out, [findings |-> Head(todo),
                              closer |-> Closer_extract_vulnerability_ids_from_issue(body),
                              reopener |-> Reopener_extract_vulnerability_ids_from_issue(body)])
    /\ todo' = Tail(todo)
    /\ UNCHANGED <<snapshot, issues, repoLabels, run, prev, runs, mode>>

NextBody == ReadBody

SpecBody == InitBody /\ [][NextBody]_vars

\* the lines an issue body is made of
BodyLines ==
    {TableLine(<<"Package", "Version", "Severity">>), SepLine(3),
     TableLine(<<"pkgX", "1.0", "HIGH">>), TableLine(<<"pkgY", "2.0", "LOW">>),
     BlankLine, TextLine("text")}

\* issue.body: every body of up to MaxLines lines
InitReaders ==
    InitInputs("readers", UNION {[1..k -> BodyLines] : k \in 0..MaxLines})

\* extract_vulnerability_ids_from_issue of the closer and of the reopener
ReadLines ==
    /\ mode = "readers" /\ todo # <<>>
    /\ out' = Append(out, [body |-> Head(todo),
                           closer |-> Closer_extract_vulnerability_ids_from_issue(Head(todo)),
                           reopener |-> Reopener_extract_vulnerability_ids_from_issue(Head(todo))])
    /\ todo' = Tail(todo)
    /\ UNCHANGED <<snapshot, issues, repoLabels, run, prev, runs, mode>>

NextReaders == ReadLines

SpecReaders == InitReaders /\ [][NextReaders]_vars

\* a package and a severity as written in a body and in a snapshot: in
\* another letter case, with blanks around
PackageForms == {P(0, "pkgX", 0), P(2, "pkgX", 1), P(0, "PkgX", 0)}

SeverityForms == {P(0, "HIGH", 0), P(1, "High", 0), P(0, "LOW", 0)}

InitCompare ==
    InitInputs("compare",
               {[claimed |-> [package_name |-> cp, severity |-> cs],
                 current |-> [package_name |-> sp, severity |-> ss]] :
                    cp \in PackageForms, cs \in SeverityForms,
                    sp \in PackageForms, ss \in SeverityForms})

\* a body row "| package | ... | severity |" between the bars
PaddedCell(p) == P(1 + p.l, p.w, 1 + p.t)

\* still_open of the closer and of the reopener for one claimed row and one
\* open record of repository alpha, each written in the layout its script
\* reads
CompareIdentities ==
    /\ mode = "compare" /\ todo # <<>>
    /\ LET x == Head(todo)
           rows == <<[repo |-> P(0, "alpha", 0), pkg |-> x.current.package_name,
                      sev |-> x.current.severity, status |-> P(0, "open", 0)]>>
           closer_body == <<TableLine(<<"Package", "Version", "Severity">>),
                            <<Edge, PaddedCell(x.claimed.package_name), Cell("1.0"),
                              PaddedCell(x.claimed.severity), Edge>>>>
           reopener_body == <<TableLine(<<"Package", "Severity">>),
                              <<Edge, PaddedCell(x.claimed.package_name),
                                PaddedCell(x.claimed.severity), Edge>>>>
           closer_current ==
               VulnsGet(Closer_get_current_vulnerabilities(
                            [exists |-> TRUE, conv |-> "RP", rows |-> rows]), "alpha")
           reopener_current ==
               VulnsGet(Reopener_get_current_vulnerabilities(
                            [exists |-> TRUE, conv |-> "RNC", rows |-> rows]), "alpha")
       IN out' = Append(out,
                        [claimed |-> x.claimed, current |-> x.current,
                         closer |-> Closer_extract_vulnerability_ids_from_issue(closer_body)
                                    \cap closer_current,
                         reopener |-> Reopener_extract_vulnerability_ids_from_issue(reopener_body)
                                      \cap reopener_current])
    /\ todo' = Tail(todo)
    /\ UNCHANGED <<snapshot, issues, repoLabels, run, prev, runs, mode>>

NextCompare == CompareIdentities

SpecCompare == InitCompare /\ [][NextCompare]_vars

\* the project items of one issue and the request that fails
SyncInputs ==
    UNION {{[items |-> items, f |-> f] :
               f \in {NoFail, <<"items_raise", 1, 0>>, <<"items_bad", 1, 0>>}
                     \cup {<<k, 1, j>> : k \in {"proj_raise", "proj_bad", "mut_raise", "mut_bad"},
                                         j \in 1..Len(items)}} :
              items \in UNION {[1..m -> {1, 2, 3}] : m \in 0..MaxItems}}

InitSync == InitInputs("sync", SyncInputs)

\* update_project_status_to_in_progress for one reopened issue
SyncStatus ==
    /\ mode = "sync" /\ todo # <<>>
    /\ LET x == Head(todo)
           issue == [Issue("alpha", "auto", <<>>, x.items) EXCEPT !.state = "open"]
           p == update_project_status_to_in_progress(issue, 1, x.f)
       IN out' = Append(out, [items |-> x.items, f |-> x.f, before |-> issue.board,
                              board |-> p.board, mut |-> p.mut, result |-> p.result])
    /\ todo' = Tail(todo)
    /\ UNCHANGED <<snapshot, issues, repoLabels, run, prev, runs, mode>>

NextSync == SyncStatus

SpecSync == InitSync /\ [][NextSync]_vars

SpecAgain == InitAgain /\ [][Next]_vars

SpecRounds == InitRounds /\ [][Next]_vars

-----------------------------------------------------------------------------
(* Closure *)

\* the closer's reader finds a table header in the body
CloserParseOk(issue_body) ==
    \E i \in 1..Len(issue_body) : CloserIsHeader(issue_body[i])

\* issue n was an open issue with the canonical label when the run started
OpenAtStart(n) ==
    run.start[n].state = "open" /\ CanonicalLabel \in run.start[n].labels

\* the set the closer reads in the body of issue n shares no identity with
\* the findings the closer loaded for the repository of the issue
NothingStillOpen(n) ==
    Closer_extract_vulnerability_ids_from_issue(run.start[n].body)
        \cap VulnsGet(run.cur, run.start[n].repo) = {}

LiveCloserDone ==
    run.script = "closer" /\ run.phase = "done" /\ ~run.dry /\ snapshot.exists

-----------------------------------------------------------------------------
(* Reopening *)

\* FindingSet[R] of the snapshot whatever its header names: the identities
\* of the records of repository R whose status is open
FindingSet(snap, repo_name) ==
    IF ~snap.exists THEN {}
    ELSE {<<strip(snap.rows[i].pkg), strip(snap.rows[i].sev)>> :
             i \in {k \in 1..Len(snap.rows) :
                      /\ strip(snap.rows[k].repo) = repo_name
                      /\ strip(snap.rows[k].pkg) # ""
                      /\ lower(strip(snap.rows[k].status)) = "open"}}

\* issue n was a closed issue with the canonical label and the title of the
\* automation when the run started
ClosedAtStart(n) ==
    /\ run.start[n].state = "closed"
    /\ CanonicalLabel \in run.start[n].labels
    /\ TitleHasPhrase(run.start[n].title)

\* the set the reopener reads in the body of issue n shares an identity with
\* the open findings of the repository of the issue
ClaimsOpenFinding(n) ==
    Reopener_extract_vulnerability_ids_from_issue(run.start[n].body)
        \cap FindingSet(snapshot, run.start[n].repo) # {}

\* C2: a live reopener run without any API failure has reopened every closed
\* tracking issue whose claimed set shares an identity with the open
\* findings of its repository.
C2_ReopenCorrectness ==
    (run.script = "reopener" /\ run.phase = "done" /\ ~run.dry /\ run.fails = 0) =>
        \A n \in 1..Len(run.start) :
            (ClosedAtStart(n) /\ ClaimsOpenFinding(n)) => issues[n].state = "open"

-----------------------------------------------------------------------------
(* Bodies that cannot be parsed *)

\* a table header: a line with '|' and a Package or Component cell
IsTableHeader(line) ==
    HasBar(line) /\ \E i \in 1..Len(line) : lower(strip(line[i])) \in {"package", "component"}

\* a separator: a line with '|' whose cells hold dashes only
IsSeparator(line) ==
    HasBar(line) /\ \A i \in 1..Len(line) : strip(line[i]) \in {"", "-", "--", "---"}

\* the lines under a table header that hold a row of the table
ExtractableRows(issue_body) ==
    {i \in 1..Len(issue_body) :
        /\ \E h \in 1..(i - 1) : IsTableHeader(issue_body[h])
        /\ HasBar(issue_body[i])
        /\ ~IsTableHeader(issue_body[i])
        /\ ~IsSeparator(issue_body[i])}

\* parseOk = false: no table header found or no extractable rows
Unparseable(issue_body) == ExtractableRows(issue_body) = {}

\* C3: the closer and the reopener leave every issue whose body cannot be
\* parsed into a claimed set as it was: no comment, no state change, no
\* change of a project field.
C3_AmbiguitySafety ==
    run.script \in {"closer", "reopener"} =>
        \A n \in 1..Len(run.start) :
            Unparseable(run.start[n].body) => issues[n] = run.start[n]

-----------------------------------------------------------------------------
(* Input errors *)

\* the snapshot is missing, or its header names are not the ones the loader
\* of the script reads
InputError(script) ==
    \/ ~snapshot.exists
    \/ script = "closer" /\ snapshot.conv # "RP"
    \/ script \in {"reopener", "creator"} /\ snapshot.conv # "RNC"

\* C7: a run on a snapshot that is missing or whose header names the loader
\* does not resolve makes no mutating call and changes no issue.
C7_InputErrorAborts ==
    (run.script \in {"closer", "reopener", "creator"} /\ InputError(run.script))
        => (run.mut = 0 /\ issues = run.start)

-----------------------------------------------------------------------------
(* Partial failure *)

\* the names of the repositories of the work list
WorkNames ==
    [i \in 1..Len(run.work) |->
        IF run.script = "creator" THEN run.work[i].w ELSE run.work[i]]

AllVisited == run.phase = "done" => run.visited = WorkNames

-----------------------------------------------------------------------------
(* Project status *)

\* C10: when the project-status procedure of a reopen did not succeed, for
\* whatever reason, and the comment call did not raise, the issue is open,
\* its board statuses are unchanged and the reopen was counted as reopened.
C10_ProjectSyncNeverFailsReopen ==
    run.script = "reopener" =>
        \A n \in 1..Len(run.start) :
            (run.sync[n].result \in {"false", "raise"} /\ ~run.sync[n].cfail)
                => /\ issues[n].state = "open"
                   /\ issues[n].board = run.start[n].board
                   /\ run.sync[n].counted

-----------------------------------------------------------------------------
(* Duplicates *)

Max(a, b) == IF a >= b THEN a ELSE b

\* a creator run leaves no repository with more open tracking issues than
\* one, or than it had when the run started
NoNewDuplicate ==
    \A r \in Repos :
        Cardinality(OpenTracking(issues, r))
            <= Max(1, Cardinality(OpenTracking(run.start, r)))

-----------------------------------------------------------------------------
(* Dry run *)

\* a live run that follows a dry run of the same script on the same
\* snapshot and the same tracker state
LiveAfterDry ==
    /\ run.script \in {"closer", "reopener"}
    /\ run.phase = "done" /\ ~run.dry
    /\ prev.script = run.script /\ prev.phase = "done" /\ prev.dry
    /\ prev.start = run.start

\* C8: a dry run of the closer or of the reopener makes no mutating call and
\* changes no issue, and it selects the issues and reports the closed and
\* reopened counts of the live run on the same snapshot and tracker state.
C8_DryRunEquivalence ==
    /\ (run.script \in {"closer", "reopener"} /\ run.dry)
          => (run.mut = 0 /\ issues = run.start)
    /\ LiveAfterDry =>
          /\ run.sel = prev.sel
          /\ run.stats.closed = prev.stats.closed
          /\ run.stats.reopened = prev.stats.reopened

\* a live reopener run reopened the issues its dry run had selected
C8_Witness ==
    /\ LiveAfterDry
    /\ run.script = "reopener"
    /\ run.sel # {} /\ run.mut > 0
    /\ \A n \in run.sel : issues[n].state = "open" /\ run.start[n].state = "closed"

-----------------------------------------------------------------------------
(* Idempotence *)

\* C5: in the second round of creator, closer and reopener on the same
\* snapshot, no run makes a mutating call.
C5_Idempotence == \A k \in 4..Len(out) : out[k].mut = 0

-----------------------------------------------------------------------------
(* Header conventions *)

\* C6: the closer, the reopener and the creator each get the same open
\* findings for every repository from the same records, whichever of the two
\* header rows the snapshot has.
C6_HeaderConventionEquivalence ==
    \A i, j \in 1..Len(out) :
        /\ out[i].closer = out[j].closer
        /\ out[i].reopener = out[j].reopener
        /\ out[i].creator = out[j].creator

-----------------------------------------------------------------------------
(* Closing comments *)

\* the number of closing comments of an issue
ClosingComments(issue) ==
    Cardinality({k \in 1..Len(issue.comments) : issue.comments[k].kind = "closed"})

\* C11: a closer run, whether an API call of it fails or not, has added to
\* each issue as many closing comments as it made transitions to closed: one
\* for a closure, none on an issue it did not close.
C11_ClosingCommentOnlyOnClosure ==
    run.script = "closer" =>
        \A n \in 1..Len(run.start) :
            ClosingComments(issues[n]) = ClosingComments(run.start[n]) + run.acts[n]

-----------------------------------------------------------------------------
(* Titles *)

\* a count written with two digits
TwoDigits(n) == <<n \div 10, n % 10>>

\* 'R - Fix all dependabot issues Critical - NN, High - NN, Medium - NN,
\* Low - NN'
ExpectedTitle(repository_name, severity_counts) ==
    [repo |-> repository_name, kind |-> "auto",
     counts |-> [sev \in {"critical", "high", "medium", "low"} |->
                    TwoDigits(severity_counts[sev])]]

\* C12: for every repository name and all severity counts,
\* format_issue_title returns the title of the automation for the
\* repository with the four counts written with two digits.
C12_TitleGeneration ==
    \A i \in 1..Len(out) :
        mode = "title" =>
            out[i].title = ExpectedTitle(out[i].repository_name, out[i].severity_counts)

-----------------------------------------------------------------------------
(* The count of the closing comment *)

\* the first cell of a line that holds one of the names, 0 if there is none
ColumnNamed(line, names) ==
    LET cols == {i \in 1..Len(line) : lower(strip(line[i])) \in names}
    IN IF cols = {} THEN 0 ELSE CHOOSE i \in cols : \A j \in cols : i <= j

\* the identities the table of a body claims: the package and the severity
\* cell of each row under the header, in the columns the header names
TableClaims(issue_body) ==
    LET headers == {h \in 1..Len(issue_body) : IsTableHeader(issue_body[h])}
    IN IF headers = {} THEN {}
       ELSE LET h == CHOOSE x \in headers : \A y \in headers : x <= y
                pc == ColumnNamed(issue_body[h], {"package", "component"})
                sc == ColumnNamed(issue_body[h], {"severity"})
            IN {<<strip(issue_body[i][pc]), strip(issue_body[i][sc])>> :
                   i \in {k \in ExtractableRows(issue_body) :
                             sc > 0 /\ Len(issue_body[k]) >= pc /\ Len(issue_body[k]) >= sc}}

\* C13: the comment of every closure states the number of identities the
\* table of the issue body claims.
C13_CloseCommentCount ==
    run.script = "closer" =>
        \A n \in 1..Len(run.start) :
            run.acts[n] = 1 =>
                issues[n].comments[Len(issues[n].comments)].n
                    = Cardinality(TableClaims(run.start[n].body))

-----------------------------------------------------------------------------
(* Creation *)

\* C14: a creator run that read its snapshot and met no API failure has
\* taken the create branch for every repository that has an open finding in
\* the snapshot and had no open tracking issue, whatever the severities.
C14_CreateOnOpenFindings ==
    (/\ run.script = "creator" /\ run.phase = "done"
     /\ ~InputError("creator") /\ run.fails = 0) =>
        \A r \in Repos :
            (FindingSet(snapshot, r) # {} /\ OpenTracking(run.start, r) = {})
                => \E d \in run.sel : d.repo = r /\ d.action = "create"

-----------------------------------------------------------------------------
(* Updates *)

\* C15: the creator takes the update branch for an existing issue only when
\* force-update is requested and the identities the issue claims differ from
\* the open findings of the repository.
C15_UpdateCondition ==
    run.script = "creator" =>
        \A d \in run.sel :
            d.action = "update" =>
                /\ run.force
                /\ TableClaims(run.start[d.issue].body) # FindingSet(snapshot, d.repo)

-----------------------------------------------------------------------------
(* Labels *)

\* C17: ensure_label_exists returns True for every label that is defined in
\* the repository when it returns.
C17_EnsureLabelSucceeds ==
    run.script = "creator" =>
        \A d \in run.sel :
            \A j \in 1..Len(d.ensured) :
                run.labels[j] \in repoLabels[d.repo] => d.ensured[j]

-----------------------------------------------------------------------------
(* Status options *)

InProgressAt(options) ==
    {k \in 1..Len(options) : lower(options[k]) \in {"in progress", "in-progress", "inprogress"}}

ToDoAt(options) ==
    {k \in 1..Len(options) : lower(options[k]) \in {"todo", "to do", "to-do", "open"}}

\* C18: for every list of Status options the target is an in-progress option
\* when one exists, otherwise a to-do option when one exists, and with neither
\* no mutation is sent.
C18_StatusOptionPriority ==
    \A i \in 1..Len(out) :
        mode = "options" =>
            LET o == out[i] IN
            /\ InProgressAt(o.options) # {} =>
                  /\ o.mutation
                  /\ \E k \in InProgressAt(o.options) : o.target_option_id = o.options[k]
            /\ (InProgressAt(o.options) = {} /\ ToDoAt(o.options) # {}) =>
                  /\ o.mutation
                  /\ \E k \in ToDoAt(o.options) : o.target_option_id = o.options[k]
            /\ (InProgressAt(o.options) = {} /\ ToDoAt(o.options) = {}) => ~o.mutation

\* an in-progress option that comes before a to-do option was chosen
C18_Witness ==
    /\ mode = "options"
    /\ \E i \in 1..Len(out) :
          /\ \E k \in InProgressAt(out[i].options), m \in ToDoAt(out[i].options) : k < m
          /\ out[i].mutation
          /\ lower(out[i].target_option_id) \in {"in progress", "inprogress"}

-----------------------------------------------------------------------------
(* Exit code *)

\* C19: a run that ends while the snapshot is missing ends with exit code 1,
\* and a run ends with exit code 0 only when no repository failed.
C19_ExitCode ==
    run.phase = "done" =>
        /\ ~snapshot.exists => run.exit = 1
        /\ run.exit = 0 => (run.failed = {} /\ run.stats.errors = 0)

-----------------------------------------------------------------------------
(* Body round trip *)

Identities(findings) ==
    {<<strip(findings[k].package_name), upper(strip(findings[k].severity))>> :
        k \in 1..Len(findings)}

\* C20: either reader recovers from a generated body exactly the
\* (package, SEVERITY) identities of the findings the body was generated from.
C20_BodyRoundTrip ==
    \A i \in 1..Len(out) :
        mode = "body" =>
            /\ out[i].closer = Identities(out[i].findings)
            /\ out[i].reopener = Identities(out[i].findings)

\* the reopener's reader alone recovers the identities
ReopenerRoundTrip ==
    \A i \in 1..Len(out) :
        mode = "body" => out[i].reopener = Identities(out[i].findings)

-----------------------------------------------------------------------------
(* Closer and reopener in alternation *)

\* the runs after which the state of issue n differs from its state after
\* the run before
StateChanges(n) ==
    {k \in 2..Len(out) :
        /\ n <= Len(out[k - 1].states)
        /\ out[k].states[n] # out[k - 1].states[n]}

\* C21: with the scripts run round after round on an unchanged snapshot, the
\* state of an issue changes at most once.
C21_NoOscillation ==
    mode = "rounds" =>
        \A n \in 1..Len(issues) : Cardinality(StateChanges(n)) <= 1

-----------------------------------------------------------------------------
(* Reopen comment *)

\* C22: an issue that a reopener run turned from closed to open bears one
\* more comment than before the run, and that comment states the number of
\* claimed identities that are among the findings loaded for the repository.
C22_ReopenComment ==
    run.script = "reopener" =>
        \A n \in 1..Len(run.start) :
            (run.start[n].state = "closed" /\ issues[n].state = "open") =>
                /\ Len(issues[n].comments) = Len(run.start[n].comments) + 1
                /\ issues[n].comments[Len(issues[n].comments)] =
                      ReopenComment(Reopener_extract_vulnerability_ids_from_issue(issues[n].body)
                                    \cap VulnsGet(run.cur, issues[n].repo))

-----------------------------------------------------------------------------
(* Failed existence query *)

\* C23: the creator does not take the create branch for a repository whose
\* query for an existing open tracking issue failed.
C23_FailedCheckBlocksCreate ==
    run.script = "creator" =>
        \A d \in run.sel : ~d.queried => d.action # "create"

-----------------------------------------------------------------------------
(* Labels of a created issue *)

\* C24: whenever the creator takes the create branch, the labels it gives to
\* the create call include the label its existence query filters on.
C24_CreatedIssuesFindable ==
    run.script = "creator" =>
        \A d \in run.sel :
            d.action = "create" => CanonicalLabel \in SeqToSet(run.labels)

-----------------------------------------------------------------------------
(* End of the table *)

\* the body up to the first blank line that follows its first table header;
\* header tells which lines a reader takes for a table header
RECURSIVE UpToBlank(_, _, _, _)
UpToBlank(body, i, seen, who) ==
    IF i > Len(body) THEN body
    ELSE IF seen /\ IsBlank(body[i]) THEN SubSeq(body, 1, i)
    ELSE UpToBlank(body, i + 1,
                   seen \/ (IF who = "closer" THEN CloserIsHeader(body[i])
                            ELSE ReopenerIsHeader(body[i])),
                   who)

\* C25: each reader returns for a body what it returns for the body cut at
\* the first blank line after the table header.
C25_TableEndsAtBlankLine ==
    \A i \in 1..Len(out) :
        mode = "readers" =>
            /\ out[i].closer =
                  Closer_extract_vulnerability_ids_from_issue(UpToBlank(out[i].body, 1, FALSE, "closer"))
            /\ out[i].reopener =
                  Reopener_extract_vulnerability_ids_from_issue(UpToBlank(out[i].body, 1, FALSE, "reopener"))

\* the reopener's reader alone stops at the blank line
ReopenerStopsAtBlankLine ==
    \A i \in 1..Len(out) :
        mode = "readers" =>
            out[i].reopener =
                Reopener_extract_vulnerability_ids_from_issue(UpToBlank(out[i].body, 1, FALSE, "reopener"))

-----------------------------------------------------------------------------
(* Identity normalization *)

\* the same finding up to letter case and surrounding blanks
SameIdentity(a, b) ==
    /\ lower(strip(a.package_name)) = lower(strip(b.package_name))
    /\ lower(strip(a.severity)) = lower(strip(b.severity))

\* C26: a claimed row and an open record that differ only in letter case or
\* surrounding blanks are in the intersection the closer and the reopener
\* compute, and rows that differ otherwise are not.
C26_IdentityNormalization ==
    \A i \in 1..Len(out) :
        mode = "compare" =>
            /\ (out[i].closer # {}) = SameIdentity(out[i].claimed, out[i].current)
            /\ (out[i].reopener # {}) = SameIdentity(out[i].claimed, out[i].current)

\* blanks alone never tell two identities apart
BlanksAreTrimmed ==
    \A i \in 1..Len(out) :
        (mode = "compare"
         /\ strip(out[i].claimed.package_name) = strip(out[i].current.package_name)
         /\ strip(out[i].claimed.severity) = strip(out[i].current.severity))
            => (out[i].closer # {} /\ out[i].reopener # {})

-----------------------------------------------------------------------------
(* Status in every linked project *)

\* the linked projects whose Status field has a matching option
Matching(items) ==
    {k \in 1..Len(items) : TargetOption(ProjectOptions(items[k]), 1, "") # ""}

\* C27: when every project lookup succeeds, a field mutation is sent for each
\* linked project that has a matching option, whether or not an earlier
\* mutation succeeded.
C27_StatusInEveryProject ==
    \A i \in 1..Len(out) :
        (mode = "sync"
         /\ out[i].f[1] \in {"none", "mut_bad"})
            => out[i].mut = Cardinality(Matching(out[i].items))

\* until a mutation succeeds, one is sent for each project that has a
\* matching option
MutationUntilSuccess ==
    \A i \in 1..Len(out) :
        (mode = "sync" /\ out[i].f[1] \in {"none", "mut_bad"})
            => /\ out[i].mut <= Cardinality(Matching(out[i].items))
               /\ (out[i].result = "false") =>
                     out[i].mut = Cardinality(Matching(out[i].items))

-----------------------------------------------------------------------------
(* Errors on one issue *)

\* issue n was selected for closure in a live run and is still open: its
\* comment call or its state change raised
CloseRaised(n) ==
    /\ n \in run.sel
    /\ run.acts[n] = 0
    /\ issues[n].state = "open"

\* C28: when the closing of one open issue of a repository raised in a live
\* closer run, every other open tracking issue of that repository whose
\* claimed set is not empty and holds no open finding has been closed.
C28_PerIssueIsolation ==
    (run.script = "closer" /\ ~run.dry) =>
        \A n, m \in 1..Len(run.start) :
            (/\ n # m
             /\ run.start[n].repo = run.start[m].repo
             /\ CloseRaised(n)
             /\ OpenAtStart(m)
             /\ Closer_extract_vulnerability_ids_from_issue(run.start[m].body) # {}
             /\ NothingStillOpen(m))
                => issues[m].state = "closed"

-----------------------------------------------------------------------------
(* Independence of repositories *)

\* the snapshot without the records of any other repository
RestrictTo(snap, r) ==
    [snap EXCEPT !.rows = SelectSeq(snap.rows, LAMBDA row : strip(row.repo) = r)]

\* what a closer run makes of issue n, from the issue and the records of its
\* repository alone; without a snapshot file main ends before any repository
ExpectedCloser(n) ==
    LET r == run.start[n].repo
        cur == VulnsGet(Closer_get_current_vulnerabilities(RestrictTo(snapshot, r)), r)
        claimed == Closer_extract_vulnerability_ids_from_issue(run.start[n].body)
    IN IF /\ snapshot.exists
          /\ ~run.dry
          /\ OpenAtStart(n)
          /\ claimed # {}
          /\ claimed \cap cur = {}
       THEN [state |-> "closed",
             comments |-> Append(run.start[n].comments, ClosingComment(claimed))]
       ELSE [state |-> run.start[n].state, comments |-> run.start[n].comments]

\* what a reopener run makes of issue n
ExpectedReopener(n) ==
    LET r == run.start[n].repo
        cur == VulnsGet(Reopener_get_current_vulnerabilities(RestrictTo(snapshot, r)), r)
        claimed == Reopener_extract_vulnerability_ids_from_issue(run.start[n].body)
    IN IF /\ ~run.dry
          /\ run.start[n].state = "closed"
          /\ CanonicalLabel \in run.start[n].labels
          /\ TitleHasPhrase(run.start[n].title)
          /\ claimed \cap cur # {}
       THEN [state |-> "open",
             comments |-> Append(run.start[n].comments, ReopenComment(claimed \cap cur))]
       ELSE [state |-> run.start[n].state, comments |-> run.start[n].comments]

\* the branch a creator run takes for repository r, from the issues and the
\* records of r alone
ExpectedDecision(r) ==
    LET existing == \E n \in OpenTracking(run.start, r) : TitleHasKeyword(run.start[n].title)
        total == SeverityTotal(RepoData(RestrictTo(snapshot, r), P(0, r, 0)))
    IN IF existing /\ ~run.force THEN "skip"
       ELSE IF total = 0 THEN "none"
       ELSE IF existing THEN "update"
       ELSE "create"

Expected(n) ==
    IF run.script = "closer" THEN ExpectedCloser(n)
    ELSE IF run.script = "reopener" THEN ExpectedReopener(n)
    ELSE [state |-> run.start[n].state, comments |-> run.start[n].comments]

\* C29: what a run makes of the issues of a repository none of whose API
\* calls failed is a function of the issues and the records of that
\* repository alone: unchanged until the repository is visited, the expected
\* result from then on and at the end of the run; the branch the creator
\* takes for it is the one its own issues and records give.
C29_RepositoryIndependence ==
    run.script \in {"closer", "reopener", "creator"} =>
        /\ \A n \in 1..Len(run.start) :
              LET r == run.start[n].repo
                  now == [state |-> issues[n].state, comments |-> issues[n].comments]
              IN /\ (r \notin SeqToSet(run.visited) /\ run.phase # "done") =>
                        issues[n] = run.start[n]
                 /\ ((r \in SeqToSet(run.visited) \/ run.phase = "done")
                     /\ r \notin run.failed) => now = Expected(n)
        /\ run.script = "creator" =>
              \A d \in run.sel :
                  (d.queried /\ d.repo \in Repos /\ d.action # "error") =>
                      d.action = ExpectedDecision(d.repo)

\* a finished live run in which an API call for one repository failed and an
\* issue of another repository changed its state
C29_Witness ==
    /\ run.phase = "done"
    /\ ~run.dry
    /\ \E n, m \in 1..Len(run.start) :
          /\ run.start[n].repo \in run.failed
          /\ run.start[m].repo \notin run.failed
          /\ run.start[m].repo \in SeqToSet(run.visited)
          /\ issues[m].state # run.start[m].state

-----------------------------------------------------------------------------
(* Order of the repositories *)

\* the place of a repository name in alphabetical order
Place(r) == CHOOSE k \in 1..Len(RepoOrder) : RepoOrder[k] = r

\* C30: every run visits its repositories in ascending alphabetical order of
\* their names.
C30_DeterministicOrder ==
    run.script \in {"closer", "reopener", "creator"} =>
        \A i, j \in 1..Len(run.visited) :
            i < j => Place(run.visited[i]) < Place(run.visited[j])

\* the closer alone visits its repositories in ascending order
CloserOrder ==
    run.script = "closer" =>
        \A i, j \in 1..Len(run.visited) :
            i < j => Place(run.visited[i]) < Place(run.visited[j])

====
